---- MODULE Spec2Model ----
(***************************************************************************)
(* A state-machine model of yagooglesearch.SearchClient                    *)
(* (src/yagooglesearch/__init__.py): one session object, the searches run  *)
(* on it through the generator search_gen, the page fetch get_page with    *)
(* its consent and HTTP 429 handling, the extractor results_from_url, the  *)
(* pacing sleep sleep_against_429 and the cool-off escalation.             *)
(*                                                                         *)
(* Reading conventions                                                     *)
(*  - Minutes of cool-off are kept in hundredths (60 minutes = 6000), the  *)
(*    factor in hundredths too (1.1 = 110), so round(x, 2) is an integer   *)
(*    rounding.                                                            *)
(*  - A Python list element is a record with a tag: "str" for a string     *)
(*    (a url in URL-only mode, or the sentinel) and "dict" for a verbose   *)
(*    record.  Python's == between a str and a dict is False.              *)
(*  - The servers, the solver, the consumer of the generator and the       *)
(*    owner of kill_event are the environment: their choices are \E.       *)
(***************************************************************************)
EXTENDS Integers, Sequences, FiniteSets, TLC

(***************************************************************************)
(* Bounds of the model.                                                    *)
(***************************************************************************)
\* Longest list of anchors a served page carries.
MaxAnchors == 2
\* Largest max_result_urls a search is started with (the smallest is -1).
MaxResults == 2
\* Requests the servers answer to one session after its construction.
MaxRequests == 3
\* Escalations of the cool-off the caller asks for on one session.
MaxEscalations == 2
\* Most forms in a response body given to check_cookie_banner.
MaxForms == 2
\* Longest redirect history of a response.
MaxHops == 2

(***************************************************************************)
(* Program constants.                                                      *)
(***************************************************************************)
\* search_gen: "if num > 100: num = 100".
NumCap == 100
\* sleep_against_429: range(min, min + 11).
SleepSpan == 11
\* round(..., 2): two decimals, i.e. hundredths.
Hundred == 100

None == "None"
SENTINEL == "HTTP_429_DETECTED"

(***************************************************************************)
(* Urls and anchors.  A url string is one of a few literals; urlparse's    *)
(* netloc of each is tabulated.  An href is either a plain link or the     *)
(* redirect wrapper "/url?..." with its q and url query parameters (None   *)
(* when the parameter is absent).                                          *)
(***************************************************************************)
UrlA == "http://a.example/x"
UrlB == "https://b.example/"
UrlG == "https://images.google.com/i"
UrlRel == "/relative/path"
UrlUpper == "http://GOOGLE.de/"
UrlUser == "http://google@c.example/p"
UrlPort == "http://:80/x"
UrlHttps == "https://www.google.com/url?q=http://a.example/x"
Urls == {UrlA, UrlB, UrlG, UrlRel, UrlUpper, UrlUser, UrlPort, UrlHttps}

\* urllib.parse.urlparse(link, scheme="http").netloc: the authority of the
\* url, i.e. userinfo, host and port as written.
netloc(link) ==
    CASE link = UrlA -> "a.example"
      [] link = UrlB -> "b.example"
      [] link = UrlG -> "images.google.com"
      [] link = UrlUpper -> "GOOGLE.de"
      [] link = UrlUser -> "google@c.example"
      [] link = UrlPort -> ":80"
      [] link = UrlHttps -> "www.google.com"
      [] OTHER -> ""

\* The host of the url, lower-cased (urlparse(...).hostname, "" for none).
hostname(link) ==
    CASE link = UrlA -> "a.example"
      [] link = UrlB -> "b.example"
      [] link = UrlG -> "images.google.com"
      [] link = UrlUpper -> "google.de"
      [] link = UrlUser -> "c.example"
      [] link = UrlHttps -> "www.google.com"
      [] OTHER -> ""

\* "google" in netloc.lower()
contains_google(host) ==
    host \in {"images.google.com", "www.google.com", "GOOGLE.de", "google.de",
              "google@c.example"}

\* text is the anchor's visible text, desc the text block two levels up.
Plain(link, text) ==
    [wrapper |-> FALSE, raw |-> link, q |-> None, url |-> None, text |-> text, desc |-> "d"]
Wrapped(q, u, text) ==
    [wrapper |-> TRUE, raw |-> "/url?", q |-> q, url |-> u, text |-> text, desc |-> "d"]

\* The wrapper in its absolute form, "http://www.google.com/url?...".
WrappedAbs(q, u, text) ==
    [wrapper |-> TRUE, raw |-> "http://www.google.com/url?", q |-> q, url |-> u,
     text |-> text, desc |-> "d"]

\* The anchors the servers put on result pages.
Anchors ==
    { Plain(UrlA, "a"), Wrapped(UrlA, None, "a"), Plain(UrlB, "b"), Plain(UrlG, "g") }

RECURSIVE SeqsUpTo(_, _)
SeqsUpTo(S, n) ==
    IF n = 0 THEN {<<>>}
    ELSE LET shorter == SeqsUpTo(S, n - 1)
         IN  shorter \cup {Append(s, x) : s \in {t \in shorter : Len(t) = n - 1}, x \in S}

Pages == SeqsUpTo(Anchors, MaxAnchors)

(***************************************************************************)
(* filter_search_result_urls: the resolved link of an href, or None.       *)
(***************************************************************************)
\* parse_qs drops a parameter with a blank value: present(v) tells that
\* the key is in the parsed query.
present(v) == v \notin {None, ""}

filter_search_result_urls(a) ==
    LET link == IF a.wrapper
                THEN IF present(a.q) THEN a.q
                     ELSE IF present(a.url) THEN a.url
                     ELSE None            \* KeyError, caught: link = None
                ELSE a.raw
    IN  IF link = None THEN None
        ELSE IF netloc(link) = "" THEN None
        ELSE IF contains_google(netloc(link)) THEN None
        ELSE link

(***************************************************************************)
(* List elements.                                                          *)
(***************************************************************************)
StrElem(s) ==
    [tag |-> "str", rank |-> -1, title |-> "", description |-> "", url |-> s]
DictElem(r, t, d, u) ==
    [tag |-> "dict", rank |-> r, title |-> t, description |-> d, url |-> u]

\* Python: link in lst, for a str link.  A dict never equals a str.
str_in(link, lst) == \E i \in 1..Len(lst) : lst[i].tag = "str" /\ lst[i].url = link

(***************************************************************************)
(* results_from_url, lines 450-486: the loop over the anchors of a page.   *)
(* prev is prev_results_ref, verbose is self.verbose_output.               *)
(***************************************************************************)
\* A variant that ranks an element by its position in its own page.
append_if_new_rank_in_page(a, prev, results, verbose) ==
    LET link == filter_search_result_urls(a)
    IN  IF link = None THEN results
        ELSE IF ~ str_in(link, prev \o results)
        THEN LET link_rank == Len(results)
                 elem == IF verbose THEN DictElem(link_rank, a.text, a.desc, link)
                         ELSE StrElem(link)
             IN  Append(results, elem)
        ELSE results

append_if_new(a, prev, results, verbose) ==
    LET link == filter_search_result_urls(a)
    IN  IF link = None THEN results
        ELSE IF ~ str_in(link, prev \o results)
        THEN LET link_rank == Len(prev) + Len(results)
                 elem == IF verbose THEN DictElem(link_rank, a.text, a.desc, link)
                         ELSE StrElem(link)
             IN  Append(results, elem)
        ELSE results

RECURSIVE extract_from(_, _, _, _, _)
extract_from(anchors, i, prev, results, verbose) ==
    IF i > Len(anchors) THEN results
    ELSE extract_from(anchors, i + 1, prev,
                      append_if_new(anchors[i], prev, results, verbose), verbose)

results_from_url(anchors, prev, verbose) == extract_from(anchors, 1, prev, <<>>, verbose)

(***************************************************************************)
(* http_429_detected: round(cool_off * factor, 2).  The product of two     *)
(* floats that lies exactly halfway between two hundredths rounds to       *)
(* either neighbour, depending on the binary representation, so a tie has  *)
(* both outcomes.                                                          *)
(***************************************************************************)
round2(v, f) ==
    LET p == v * f
        lo == p \div Hundred
        r == p % Hundred
    IN  IF 2 * r < Hundred THEN {lo}
        ELSE IF 2 * r > Hundred THEN {lo + 1}
        ELSE {lo, lo + 1}

\* A variant that rounds to whole minutes: round(x) for round(x, 2).
http_429_detected_whole_minutes(v, f) ==
    LET p == v * f
        whole == Hundred * Hundred
        lo == p \div whole
        r == p % whole
    IN  IF 2 * r < whole THEN {Hundred * lo}
        ELSE IF 2 * r > whole THEN {Hundred * (lo + 1)}
        ELSE {Hundred * lo, Hundred * (lo + 1)}

http_429_detected(v, f) == round2(v, f)

(***************************************************************************)
(* Configurations a session is constructed with.                           *)
(***************************************************************************)
\* The timing arguments of __init__: http_429_cool_off_time_in_minutes and
\* http_429_cool_off_factor, in hundredths (60 minutes and 1.1 are the
\* defaults), and minimum_delay_between_paged_results_in_seconds.
TimingConfigs ==
    { [cool_off |-> 6000, factor |-> 110, min_delay |-> 1],
      [cool_off |-> 100, factor |-> 150, min_delay |-> 0],
      [cool_off |-> 6000, factor |-> 50, min_delay |-> 1] }
\* The user agents random.choice draws from (USER_AGENTS_LIST), and a
\* user_agent argument of __init__.
USER_AGENTS_LIST == {"ua1", "ua2"}
ConfiguredAgent == "uaD"
\* assign_user_agent, line 203: the values self.user_agent can take.
assign_user_agent(user_agent_arg) ==
    IF user_agent_arg \notin {None, ""} THEN {user_agent_arg} ELSE USER_AGENTS_LIST
\* num and start arguments of search_gen
NumChoices == {10, 150}
StartChoices == {0, 7}
\* The built-in GET parameters, line 75.
URL_PARAMETERS == {"btnG", "cr", "hl", "num", "q", "safe", "start", "tbs", "lr"}
\* Key sets of the extra_params argument: none, a free key, each built-in
\* key alone, and a built-in key beside a free one.
ExtraChoices ==
    {{}, {"filter"}, {"filter", "num"}} \cup {{k} : k \in URL_PARAMETERS}
\* The calls search_gen(query, start, num, extra_params) of the callers.
SearchArgs ==
    { a \in [start : StartChoices, num : NumChoices, extra_params : ExtraChoices] :
        IF a.extra_params = {"filter"} THEN a.start = 7 /\ a.num = 150
        ELSE a.start = 0 /\ a.num = 10 }
NoArgs == [start |-> 0, num |-> 0, extra_params |-> {}]

(***************************************************************************)
(* get_url: the page url, as the parameters that vary: "&btnG=Google+Search"*)
(* for start in [None, 0] and "&start=<start>" otherwise, "&num=<num>", and *)
(* the extra parameters; ValueError when an extra key is a built-in one.   *)
(***************************************************************************)
NoUrl == [error |-> "none", btnG |-> FALSE, start |-> 0, num |-> 0, extra |-> {}]
\* A variant that never writes the start parameter.
get_url_without_start(start, num, extra_params) ==
    IF extra_params \cap URL_PARAMETERS # {}
    THEN [NoUrl EXCEPT !.error = "ValueError"]
    ELSE [error |-> "none", btnG |-> TRUE, start |-> 0, num |-> num,
          extra |-> extra_params]

get_url(start, num, extra_params) ==
    IF extra_params \cap URL_PARAMETERS # {}
    THEN [NoUrl EXCEPT !.error = "ValueError"]
    ELSE [error |-> "none", btnG |-> (start = 0), start |-> start, num |-> num,
          extra |-> extra_params]
\* The offset a page url asks for.
offset(url) == IF url.btnG THEN 0 ELSE url.start

Statuses == {200, 429, 503}
\* What a 429 body carries: no g-recaptcha div, the div without the
\* captcha form, or the whole challenge.
Challenges == {"none", "noform", "full"}

Response(st, an, ch) == [status |-> st, anchors |-> an, challenge |-> ch]
\* The responses a server can give; the body of a 200 is a result page.
Responses ==
    {Response(200, an, "none") : an \in Pages}
        \cup {Response(429, <<>>, ch) : ch \in Challenges}
        \cup {Response(503, <<>>, "none")}

\* What happened since the last 429 response of the running search: solver
\* tells that the solver was invoked, token that it returned a token for a
\* whole challenge, resubmit the method of the challenge resubmission,
\* requests the requests sent since, slept the cool-off slept (-1: none).
No429 == [seen |-> FALSE, solver |-> FALSE, token |-> FALSE, resubmit |-> "none",
          requests |-> 0, slept |-> -1, escalated |-> FALSE]

\* What happened since kill_event was set during a pacing delay of the
\* running search: the one-second ticks that elapsed, and the length of the
\* yielded sequence and the request counter at that moment.
NoPaceKill == [seen |-> FALSE, ticks |-> 0, yielded |-> 0, webcalls |-> 0]

\* The locals of a generator that is not running.
\* args are the arguments of the call, page counts the pages fetched;
\* random_agent tells, until the loop is entered, that line 518 ran
\* random.choice(USER_AGENTS_LIST): assign_new_ua was True and no user
\* agent is configured.  home tells that the caller of get_page is
\* reset_search(firsttime=True), line 178, and not results_from_url.
NoFrame == [args |-> NoArgs, random_agent |-> FALSE, home |-> FALSE, page |-> 0,
            url |-> NoUrl,
            start |-> 0, num |-> 0, search_result_list |-> <<>>, new_results |-> <<>>,
            idx |-> 0, challenge |-> "none", ticks_left |-> 0]

\* The last HTTP exchange of the running search: the status code of the
\* last response get_page dispatched on (0: none yet) and the call whose
\* transport failed ("none", "page", "consent" or "resubmit"); paced tells
\* that sleep_against_429 began a delay of at least one second since the
\* last page was fetched;
\* agents are the User-Agent headers the requests of the search carried.
NoFetch == [status |-> 0, failed |-> "none", paced |-> FALSE, agents |-> {}]

VARIABLES
    \* configuration, fixed at construction
    verbose_output, manages429, asserts_on, min_delay, factor, cooloff0,
    default_user_agent,
    \* session state
    cooloff, webcalls, last_webcalls, kill_event, user_agent,
    \* the running search_gen: its position, its max_result_urls argument,
    \* its other locals, and how it ended
    pc, max_result_urls, frame, signal, error,
    \* history of the session and of the running search
    escalations, earlier_ranks,
    yielded, g429, page_zero_new, pace_kill, last_fetch,
    \* single calls of filter_search_result_urls, check_cookie_banner and
    \* request's cookie update, each with its arguments and its result
    link_call, consent_call, cookie_call

config == <<verbose_output, manages429, asserts_on, min_delay, factor, cooloff0,
           default_user_agent>>
session == <<cooloff, webcalls, last_webcalls>>
control == <<pc, signal, error>>
run_history == <<yielded, g429, page_zero_new, pace_kill, last_fetch>>
calls == <<link_call, consent_call, cookie_call>>
history == <<escalations, earlier_ranks, run_history>>
vars == <<config, session, kill_event, user_agent, control, max_result_urls, frame,
          history, calls>>

\* property killed: kill_event is not None and kill_event.is_set()
killed == kill_event # None /\ kill_event = "set"

(***************************************************************************)
(* The state after SearchClient(...) returned: reset_search(firsttime=True)*)
(* fetched the home page and set last_webcalls = webcalls = 1.             *)
(***************************************************************************)
NoCall == [fn |-> "none"]

ConstructedWith(user_agent_arg) ==
    /\ verbose_output \in BOOLEAN
    /\ manages429 \in BOOLEAN
    /\ asserts_on \in BOOLEAN
    /\ \E c \in TimingConfigs :
          /\ cooloff = c.cool_off
          /\ cooloff0 = c.cool_off
          /\ factor = c.factor
          /\ min_delay = c.min_delay
    /\ default_user_agent = user_agent_arg
    /\ user_agent \in assign_user_agent(default_user_agent)
    /\ webcalls = 1
    /\ last_webcalls = 1
    /\ kill_event = "clear"
    /\ pc = "idle"
    /\ max_result_urls = 0
    /\ frame = NoFrame
    /\ signal = "none"
    /\ error = "none"
    /\ escalations = 0
    /\ earlier_ranks = {}
    /\ yielded = <<>>
    /\ g429 = No429
    /\ page_zero_new = FALSE
    /\ pace_kill = NoPaceKill
    /\ last_fetch = NoFetch

\* The session was given its user agent.
Constructed == ConstructedWith(ConfiguredAgent)

Init ==
    /\ Constructed
    /\ link_call = NoCall
    /\ consent_call = NoCall
    /\ cookie_call = NoCall

\* No generator is alive: none was started yet, or the last one ended.
AtRest == pc \in {"new", "failed", "idle", "done", "raised"}
\* The generator is suspended at a yield: the consumer holds the control.
Suspended == pc \in {"yielded", "yielded_429"}

Goto(p) == pc' = p /\ UNCHANGED <<signal, error>>
\* A return or an exception ends the generator: its locals are gone.
Return(sig) == pc' = "done" /\ signal' = sig /\ error' = "none" /\ frame' = NoFrame
\* An exception in __init__ leaves no session.
Raise(err) ==
    /\ pc' = IF frame.home THEN "failed" ELSE "raised"
    /\ error' = err
    /\ signal' = "none"
    /\ frame' = NoFrame

\* The ranks of the verbose records of a list.
Ranks(lst) == {lst[i].rank : i \in {j \in 1..Len(lst) : lst[j].tag = "dict"}}
\* Requests the servers still answer.
RequestsLeft == MaxRequests + 1 - webcalls

\* A variant that starts every search from the configured cool-off.
reset_search_restores_cooloff(new_ua) ==
    /\ IF new_ua
       THEN user_agent' \in assign_user_agent(default_user_agent)
       ELSE UNCHANGED user_agent
    /\ cooloff' = cooloff0
    /\ UNCHANGED <<webcalls, last_webcalls>>

\* reset_search(firsttime=False, new_ua), lines 174-176: at most a new user
\* agent; the counters and the cool-off are left alone.
reset_search(new_ua) ==
    /\ IF new_ua
       THEN user_agent' \in assign_user_agent(default_user_agent)
       ELSE UNCHANGED user_agent
    /\ UNCHANGED session

(***************************************************************************)
(* The caller drops the generator object: one that ended, or a suspended   *)
(* one it abandons.  Nothing of the run stays but what it left on the      *)
(* session.                                                                *)
(***************************************************************************)
discard ==
    /\ pc \in {"done", "raised"} \/ Suspended
    /\ pc' = "idle"
    /\ signal' = "none"
    /\ error' = "none"
    /\ frame' = NoFrame
    /\ max_result_urls' = 0
    /\ earlier_ranks' = earlier_ranks \cup Ranks(yielded)
    /\ yielded' = <<>>
    /\ g429' = No429
    /\ page_zero_new' = FALSE
    /\ pace_kill' = NoPaceKill
    /\ last_fetch' = NoFetch
    /\ UNCHANGED <<calls, config, user_agent, session, kill_event, escalations>>

(***************************************************************************)
(* search_gen, lines 513-519: the first next() on a new generator, which   *)
(* the caller creates once the one before is dropped.                      *)
(***************************************************************************)
StartSearch ==
    /\ pc = "idle"
    /\ \E n \in -1..MaxResults, a \in SearchArgs, new_ua \in BOOLEAN :
          /\ max_result_urls' = n
          /\ frame' = [NoFrame EXCEPT !.args = a,
                                      !.random_agent =
                                          (new_ua /\ default_user_agent \in {None, ""}),
                                      !.num = IF a.num > NumCap THEN NumCap ELSE a.num,
                                      !.start = a.start]
          /\ reset_search(new_ua)
    /\ pc' = "loop"
    /\ signal' = "none"
    /\ error' = "none"
    /\ earlier_ranks' = earlier_ranks \cup Ranks(yielded)
    /\ yielded' = <<>>
    /\ g429' = No429
    /\ page_zero_new' = FALSE
    /\ pace_kill' = NoPaceKill
    /\ last_fetch' = NoFetch
    /\ UNCHANGED <<calls, config, kill_event, escalations>>

(***************************************************************************)
(* search_gen, line 522: the while condition.  Entering the loop builds    *)
(* the page url (get_url) and calls results_from_url, which calls          *)
(* get_page.                                                               *)
(***************************************************************************)
WhileEnter ==
    /\ pc = "loop"
    /\ Len(frame.search_result_list) <= max_result_urls
    /\ LET url == get_url(frame.start, frame.num, frame.args.extra_params)
       IN  IF url.error = "ValueError"
           THEN Raise("ValueError")
           ELSE /\ frame' = [frame EXCEPT !.url = url, !.random_agent = FALSE]
                /\ Goto("request")
    /\ UNCHANGED <<calls, config, user_agent, session, kill_event, max_result_urls, history>>

\* The condition is false: line 554, the generator ends with no value.
WhileExit ==
    /\ pc = "loop"
    /\ ~ (Len(frame.search_result_list) <= max_result_urls)
    /\ Return(None)
    /\ UNCHANGED <<calls, config, user_agent, session, kill_event, max_result_urls, history>>

(***************************************************************************)
(* results_from_url, lines 438-486, on the html get_page returned (the     *)
(* anchors of a 200, nothing for another status), and search_gen's test of *)
(* the batch, lines 534-537.                                               *)
(***************************************************************************)
KnownUrls(lst) == {lst[i].url : i \in 1..Len(lst)}
\* Every anchor is filtered out or resolves to a url already in the list.
ZeroNewUnique(anchors, lst) ==
    \A i \in 1..Len(anchors) :
        \/ filter_search_result_urls(anchors[i]) = None
        \/ filter_search_result_urls(anchors[i]) \in KnownUrls(lst)

\* A variant that yields element i of the batch without appending it.
YieldElem_without_append(batch, i) ==
    /\ frame' = [frame EXCEPT !.new_results = batch, !.idx = i]
    /\ yielded' = Append(yielded, batch[i])
    /\ Goto("yielded")

\* search_gen, lines 539-541: append element i of the batch and yield it;
\* the generator is suspended until the consumer asks for the next element.
YieldElem(batch, i) ==
    /\ frame' = [frame EXCEPT !.new_results = batch, !.idx = i,
                              !.search_result_list = Append(@, batch[i])]
    /\ yielded' = Append(yielded, batch[i])
    /\ Goto("yielded")

Extract(r) ==
    LET html == IF r.status = 200 THEN r.anchors ELSE <<>>
        batch == results_from_url(html, frame.search_result_list, verbose_output)
    IN  /\ page_zero_new' = ZeroNewUnique(html, frame.search_result_list)
        /\ IF batch = <<>>
           THEN /\ Return("SEARCH_EXHAUSTED")
                /\ UNCHANGED yielded
           ELSE YieldElem(batch, 1)

(***************************************************************************)
(* get_page, lines 391-403 and 421-424: request(url), check_cookie_banner  *)
(* (one more request when the page is a consent interstitial, whose        *)
(* response replaces the first), then the dispatch on the status code.     *)
(* request() counts the call in webcalls after the transport returned.     *)
(* A 200 or another status returns to results_from_url; a 429 goes on to   *)
(* the challenge.                                                          *)
(***************************************************************************)
\* A variant that takes every status but 200 for a rate limit.
Dispatch_every_failure_is_429(r) ==
    IF r.status # 200
    THEN /\ frame' = [frame EXCEPT !.challenge = r.challenge]
         /\ g429' = [No429 EXCEPT !.seen = TRUE]
         /\ Goto("solve")
         /\ UNCHANGED <<page_zero_new, yielded>>
    ELSE IF frame.home
    THEN /\ Goto("home_done")
         /\ UNCHANGED <<frame, g429, page_zero_new, yielded>>
    ELSE /\ Extract(r)
         /\ UNCHANGED g429

Dispatch(r) ==
    IF r.status = 429
    THEN /\ frame' = [frame EXCEPT !.challenge = r.challenge]
         /\ g429' = [No429 EXCEPT !.seen = TRUE]
         /\ Goto("solve")
         /\ UNCHANGED <<page_zero_new, yielded>>
    ELSE IF frame.home
    THEN /\ Goto("home_done")
         /\ UNCHANGED <<frame, g429, page_zero_new, yielded>>
    ELSE /\ Extract(r)
         /\ UNCHANGED g429

get_page ==
    /\ pc = "request"
    /\ \E r \in Responses, banner \in BOOLEAN :
          /\ RequestsLeft >= (IF banner THEN 2 ELSE 1)
          /\ webcalls' = IF banner THEN webcalls + 2 ELSE webcalls + 1
          /\ last_fetch' = [last_fetch EXCEPT !.status = r.status, !.paced = FALSE,
                                               !.agents = @ \cup {user_agent}]
          /\ Dispatch(r)
    /\ UNCHANGED <<calls, config, user_agent, cooloff, last_webcalls, kill_event, max_result_urls>>
    /\ UNCHANGED <<escalations, earlier_ranks, pace_kill>>

\* A variant that tries the page again after a transport failure.
get_page_transport_failure_retried ==
    /\ pc = "request"
    /\ last_fetch' = [last_fetch EXCEPT !.failed = "page"]
    /\ UNCHANGED <<calls, config, user_agent, session, kill_event, control, max_result_urls, frame>>
    /\ UNCHANGED <<escalations, earlier_ranks, yielded, g429, page_zero_new, pace_kill>>

\* requests.get / requests.post raised: nothing catches it.  first tells
\* whether it was the page request or the consent POST after it.
get_page_transport_failure ==
    /\ pc = "request"
    /\ \E first \in BOOLEAN :
          /\ ~ first => RequestsLeft >= 1
          /\ webcalls' = IF first THEN webcalls ELSE webcalls + 1
          /\ last_fetch' = [last_fetch EXCEPT !.failed = IF first THEN "page" ELSE "consent",
                                               !.paced = IF first THEN @ ELSE FALSE,
                                               !.agents = @ \cup {user_agent}]
    /\ Raise("TransportError")
    /\ UNCHANGED <<calls, config, user_agent, cooloff, last_webcalls, kill_event, max_result_urls>>
    /\ UNCHANGED <<escalations, earlier_ranks, yielded, g429, page_zero_new, pace_kill>>

(***************************************************************************)
(* get_page, lines 403-412, on a 429: solve_recaptcha(response, url), then *)
(* the test of yagooglesearch_manages_http_429s.                           *)
(* solve_recaptcha, lines 366-382:                                         *)
(*   369  soup.find(div g-recaptcha).attrs   AttributeError without a div  *)
(*   370  librecaptcha.get_token(...)        the solver: a token, or raises*)
(*   372  captcha_form.children              AttributeError without a form *)
(*   381  self.request(captcha_url, data=form_inputs, additional_headers)  *)
(*        type defaults to "GET" and form_inputs is not empty, so          *)
(*        "assert not data" fails; with assertions stripped (python -O)    *)
(*        requests.get is sent, without the form.                          *)
(***************************************************************************)
AfterChallenge ==
    IF ~ manages429 /\ frame.home
    THEN \* get_page returns the sentinel to reset_search, which drops it
         /\ frame' = [frame EXCEPT !.challenge = "none"]
         /\ Goto("home_done")
         /\ UNCHANGED yielded
    ELSE IF ~ manages429
    THEN \* get_page returns the sentinel, results_from_url [sentinel],
         \* search_gen appends it and yields it (lines 529-532)
         /\ frame' = [frame EXCEPT !.search_result_list = Append(@, StrElem(SENTINEL)),
                                   !.challenge = "none"]
         /\ yielded' = Append(yielded, StrElem(SENTINEL))
         /\ Goto("yielded_429")
    ELSE /\ frame' = [frame EXCEPT !.challenge = "none"]
         /\ Goto("cooloff")
         /\ UNCHANGED yielded

Solved(method) == [g429 EXCEPT !.solver = TRUE, !.token = TRUE, !.resubmit = method]

\* A variant that goes on without a token when the solver fails.
get_token_raises_falls_back ==
    /\ g429' = [g429 EXCEPT !.solver = TRUE]
    /\ UNCHANGED <<webcalls, last_fetch>>
    /\ AfterChallenge

\* librecaptcha.get_token raised, line 370: nothing catches it.
get_token_raises ==
    /\ Raise("SolverError")
    /\ g429' = [g429 EXCEPT !.solver = TRUE]
    /\ UNCHANGED <<webcalls, yielded, last_fetch>>

solve_recaptcha ==
    /\ pc = "solve"
    /\ \/ /\ frame.challenge = "none"
          /\ Raise("AttributeError")
          /\ UNCHANGED <<g429, webcalls, yielded, last_fetch>>
       \/ /\ frame.challenge # "none"
          /\ \E solved \in BOOLEAN :
                IF ~ solved
                THEN get_token_raises
                ELSE IF frame.challenge = "noform"
                THEN /\ Raise("AttributeError")
                     /\ g429' = [g429 EXCEPT !.solver = TRUE]
                     /\ UNCHANGED <<webcalls, yielded, last_fetch>>
                ELSE IF asserts_on
                THEN /\ Raise("AssertionError")
                     /\ g429' = Solved("GET")
                     /\ UNCHANGED <<webcalls, yielded, last_fetch>>
                ELSE \E sent \in BOOLEAN :
                        IF ~ sent
                        THEN /\ Raise("TransportError")
                             /\ g429' = Solved("GET")
                             /\ last_fetch' = [last_fetch EXCEPT !.failed = "resubmit",
                                                                  !.agents = @ \cup {user_agent}]
                             /\ UNCHANGED <<webcalls, yielded>>
                        ELSE /\ RequestsLeft >= 1
                             /\ webcalls' = webcalls + 1
                             /\ g429' = [Solved("GET") EXCEPT !.requests = @ + 1]
                             /\ last_fetch' = [last_fetch EXCEPT !.agents = @ \cup {user_agent}]
                             /\ AfterChallenge
    /\ UNCHANGED <<calls, config, user_agent, cooloff, last_webcalls, kill_event, max_result_urls>>
    /\ UNCHANGED <<escalations, earlier_ranks,
                   page_zero_new, pace_kill>>

\* get_page, lines 414-415: time.sleep(cool_off * 60)
cool_off_sleep ==
    /\ pc = "cooloff"
    /\ g429' = [g429 EXCEPT !.slept = cooloff]
    /\ Goto("escalate")
    /\ UNCHANGED <<calls, config, user_agent, session, kill_event, max_result_urls, frame>>
    /\ UNCHANGED <<escalations, earlier_ranks, yielded,
                   page_zero_new, pace_kill, last_fetch>>

\* A variant that retries under a new user agent.
escalate_and_retry_new_agent ==
    /\ pc = "escalate"
    /\ cooloff' \in http_429_detected(cooloff, factor)
    /\ escalations' = escalations + 1
    /\ g429' = [g429 EXCEPT !.escalated = TRUE]
    /\ user_agent' \in assign_user_agent(default_user_agent)
    /\ Goto("request")
    /\ UNCHANGED <<calls, config, webcalls, last_webcalls, kill_event, max_result_urls, frame>>
    /\ UNCHANGED <<earlier_ranks, yielded,
                   page_zero_new, pace_kill, last_fetch>>

\* get_page, lines 416-419: http_429_detected(), then get_page(url) again
escalate_and_retry ==
    /\ pc = "escalate"
    /\ cooloff' \in http_429_detected(cooloff, factor)
    /\ escalations' = escalations + 1
    /\ g429' = [g429 EXCEPT !.escalated = TRUE]
    /\ Goto("request")
    /\ UNCHANGED <<calls, config, user_agent, webcalls, last_webcalls, kill_event, max_result_urls, frame>>
    /\ UNCHANGED <<earlier_ranks, yielded,
                   page_zero_new, pace_kill, last_fetch>>

\* http_429_detected() is a public method: a caller that handles the 429s
\* itself calls it once a search ran into a 429.
caller_http_429_detected ==
    /\ pc \in {"done", "raised", "yielded_429"}
    /\ g429.seen
    /\ escalations < MaxEscalations
    /\ cooloff' \in http_429_detected(cooloff, factor)
    /\ escalations' = escalations + 1
    /\ UNCHANGED <<calls, config, user_agent, webcalls, last_webcalls, kill_event, control,
                   max_result_urls, frame>>
    /\ UNCHANGED <<earlier_ranks, run_history>>

(***************************************************************************)
(* search_gen resumed after a yield, lines 542-549: the cap test, the next *)
(* element of the batch, or the end of the batch: start += num and the     *)
(* entry of sleep_against_429 (lines 489-491), which draws the delay when  *)
(* webcalls advanced.                                                      *)
(***************************************************************************)
\* A variant that draws from one second more.
random_sleep_times_wide(minimum) == minimum..(minimum + SleepSpan)

\* random.choice(range(minimum, minimum + 11)), line 491
random_sleep_times(minimum) == minimum..(minimum + SleepSpan - 1)

resume ==
    /\ pc = "yielded"
    /\ IF max_result_urls <= Len(frame.search_result_list)
       THEN /\ Return("MAX_RESULTS_REACHED")
            /\ UNCHANGED <<yielded, last_fetch>>
       ELSE IF frame.idx < Len(frame.new_results)
       THEN /\ YieldElem(frame.new_results, frame.idx + 1)
            /\ UNCHANGED last_fetch
       ELSE /\ UNCHANGED yielded
            /\ IF last_webcalls < webcalls
               THEN /\ \E d \in random_sleep_times(min_delay) :
                          /\ frame' = [frame EXCEPT !.start = @ + frame.num,
                                                    !.page = @ + 1,
                                                    !.new_results = <<>>, !.idx = 0,
                                                    !.ticks_left = d]
                          /\ last_fetch' = [last_fetch EXCEPT !.paced = (d > 0)]
                    /\ Goto("pace")
               ELSE /\ frame' = [frame EXCEPT !.start = @ + frame.num,
                                              !.page = @ + 1,
                                              !.new_results = <<>>, !.idx = 0]
                    /\ Goto("after_pace")
                    /\ UNCHANGED last_fetch
    /\ page_zero_new' = FALSE
    /\ UNCHANGED <<calls, config, user_agent, session, kill_event, max_result_urls>>
    /\ UNCHANGED <<escalations, earlier_ranks, g429, pace_kill>>

\* search_gen resumed after the sentinel was yielded, line 533
resume_429 ==
    /\ pc = "yielded_429"
    /\ Return(SENTINEL)
    /\ UNCHANGED <<calls, config, user_agent, session, kill_event, max_result_urls, history>>

(***************************************************************************)
(* sleep_against_429, lines 493-497: the head of the for loop.  The loop   *)
(* ends after the drawn number of ticks (the snapshot is then taken) or    *)
(* returns at once when killed; random_sleep_time ends with the call.      *)
(***************************************************************************)
\* A variant that polls kill_event only after the whole delay.
sleep_loop_no_poll ==
    /\ pc = "pace"
    /\ IF frame.ticks_left = 0
       THEN /\ last_webcalls' = webcalls
            /\ Goto("after_pace")
       ELSE /\ UNCHANGED last_webcalls
            /\ Goto("tick")
    /\ frame' = IF pc' = "after_pace" THEN [frame EXCEPT !.ticks_left = 0] ELSE frame
    /\ UNCHANGED <<calls, config, user_agent, cooloff, webcalls, kill_event, max_result_urls, history>>

sleep_loop ==
    /\ pc = "pace"
    /\ IF frame.ticks_left = 0
       THEN /\ last_webcalls' = webcalls
            /\ Goto("after_pace")
       ELSE IF killed
       THEN /\ UNCHANGED last_webcalls
            /\ Goto("after_pace")
       ELSE /\ UNCHANGED last_webcalls
            /\ Goto("tick")
    /\ frame' = IF pc' = "after_pace" THEN [frame EXCEPT !.ticks_left = 0] ELSE frame
    /\ UNCHANGED <<calls, config, user_agent, cooloff, webcalls, kill_event, max_result_urls, history>>

\* time.sleep(1), line 496
tick ==
    /\ pc = "tick"
    /\ frame' = [frame EXCEPT !.ticks_left = @ - 1]
    /\ pace_kill' = IF pace_kill.seen THEN [pace_kill EXCEPT !.ticks = @ + 1] ELSE pace_kill
    /\ Goto("pace")
    /\ UNCHANGED <<calls, config, user_agent, session, kill_event, max_result_urls>>
    /\ UNCHANGED <<escalations, earlier_ranks, yielded, g429, page_zero_new, last_fetch>>

\* A variant that reports the cap when the search was cancelled.
kill_check_reports_cap ==
    /\ pc = "after_pace"
    /\ IF killed
       THEN Return("MAX_RESULTS_REACHED")
       ELSE /\ frame' = [frame EXCEPT !.ticks_left = 0]
            /\ Goto("loop")
    /\ UNCHANGED <<calls, config, user_agent, session, kill_event, max_result_urls, history>>

\* search_gen, lines 550-552
kill_check ==
    /\ pc = "after_pace"
    /\ IF killed
       THEN Return("SEARCH_KILLED")
       ELSE /\ frame' = [frame EXCEPT !.ticks_left = 0]
            /\ Goto("loop")
    /\ UNCHANGED <<calls, config, user_agent, session, kill_event, max_result_urls, history>>

\* The owner of kill_event sets it, at any moment of a search.
set_kill_event ==
    /\ ~ AtRest
    /\ kill_event = "clear"
    /\ kill_event' = "set"
    /\ pace_kill' = IF pc \in {"pace", "tick"}
                    THEN [seen |-> TRUE, ticks |-> 0, yielded |-> Len(yielded),
                          webcalls |-> webcalls]
                    ELSE pace_kill
    /\ UNCHANGED <<calls, config, user_agent, session, control, max_result_urls, frame>>
    /\ UNCHANGED <<escalations, earlier_ranks, yielded, g429, page_zero_new, last_fetch>>

Next ==
    \/ discard
    \/ StartSearch
    \/ WhileEnter
    \/ WhileExit
    \/ get_page
    \/ get_page_transport_failure
    \/ solve_recaptcha
    \/ cool_off_sleep
    \/ escalate_and_retry
    \/ caller_http_429_detected
    \/ resume
    \/ resume_429
    \/ sleep_loop
    \/ tick
    \/ kill_check
    \/ set_kill_event

Spec == Init /\ [][Next]_vars

(***************************************************************************)
(* The construction of a session, __init__ lines 127-170: the attributes,  *)
(* then reset_search(firsttime=True): the user agent, get_page(url_home)   *)
(* with all that get_page does, and the counters.  webcalls is read as 0   *)
(* while the attribute is missing (getattr, line 295); last_webcalls is    *)
(* missing until line 179 and is 0 here.                                   *)
(***************************************************************************)
ConstructInit ==
    /\ verbose_output = FALSE
    /\ manages429 \in BOOLEAN
    /\ asserts_on \in BOOLEAN
    /\ cooloff = 6000
    /\ cooloff0 = 6000
    /\ factor = 110
    /\ min_delay = 1
    /\ default_user_agent = ConfiguredAgent
    /\ user_agent = None
    /\ webcalls = 0
    /\ last_webcalls = 0
    /\ kill_event = "clear"
    /\ pc = "new"
    /\ max_result_urls = 0
    /\ frame = NoFrame
    /\ signal = "none"
    /\ error = "none"
    /\ escalations = 0
    /\ earlier_ranks = {}
    /\ yielded = <<>>
    /\ g429 = No429
    /\ page_zero_new = FALSE
    /\ pace_kill = NoPaceKill
    /\ last_fetch = NoFetch
    /\ link_call = NoCall
    /\ consent_call = NoCall
    /\ cookie_call = NoCall

\* __init__ up to the call of get_page, lines 127-178
construct ==
    /\ pc = "new"
    /\ user_agent' \in assign_user_agent(default_user_agent)
    /\ frame' = [NoFrame EXCEPT !.home = TRUE]
    /\ Goto("request")
    /\ UNCHANGED <<calls, config, session, kill_event, max_result_urls, history>>

\* A variant that keeps the count of the home page's requests.
reset_search_firsttime_keeps_count ==
    /\ pc = "home_done"
    /\ UNCHANGED webcalls
    /\ last_webcalls' = 1
    /\ frame' = NoFrame
    /\ g429' = No429
    /\ last_fetch' = NoFetch
    /\ Goto("idle")
    /\ UNCHANGED <<calls, config, user_agent, cooloff, kill_event, max_result_urls>>
    /\ UNCHANGED <<escalations, earlier_ranks, yielded, page_zero_new, pace_kill>>

\* reset_search, line 179, and the end of __init__: get_page returned
reset_search_firsttime ==
    /\ pc = "home_done"
    /\ webcalls' = 1
    /\ last_webcalls' = 1
    /\ frame' = NoFrame
    /\ g429' = No429
    /\ last_fetch' = NoFetch
    /\ Goto("idle")
    /\ UNCHANGED <<calls, config, user_agent, cooloff, kill_event, max_result_urls>>
    /\ UNCHANGED <<escalations, earlier_ranks, yielded, page_zero_new, pace_kill>>

ConstructNext ==
    \/ construct
    \/ reset_search_firsttime
    \/ Next

ConstructSpec == ConstructInit /\ [][ConstructNext]_vars

(***************************************************************************)
(* Sessions constructed without a user_agent argument: assign_user_agent   *)
(* draws the user agent at random, in __init__ and in every search started *)
(* with assign_new_ua=True.                                                *)
(***************************************************************************)
AgentInit ==
    /\ ConstructedWith(None)
    /\ ~ verbose_output
    /\ cooloff0 = 6000
    /\ factor = 110
    /\ link_call = NoCall
    /\ consent_call = NoCall
    /\ cookie_call = NoCall

AgentSpec == AgentInit /\ [][Next]_vars

(***************************************************************************)
(* Single calls.  In the specifications below the session just stands      *)
(* constructed, and one function is called on every argument of a bounded  *)
(* set; the call is kept with its result.                                  *)
(***************************************************************************)
Standing ==
    /\ Constructed
    /\ ~ verbose_output
    /\ manages429
    /\ asserts_on
    /\ cooloff0 = 6000
    /\ factor = 110
main == <<config, session, kill_event, user_agent, control, max_result_urls, frame,
          history>>

(***************************************************************************)
(* filter_search_result_urls(link) on the hrefs of Hrefs.                  *)
(***************************************************************************)
QueryValues == Urls \cup {None, ""}
Hrefs ==
    {Plain(u, "t") : u \in Urls}
        \cup {Wrapped(q, u, "t") : q \in QueryValues, u \in QueryValues}
        \cup {WrappedAbs(q, u, "t") : q \in QueryValues, u \in QueryValues}

FilterInit ==
    /\ Standing
    /\ link_call = NoCall
    /\ consent_call = NoCall
    /\ cookie_call = NoCall

call_filter_search_result_urls ==
    /\ link_call.fn = "none"
    /\ \E a \in Hrefs :
          link_call' = [fn |-> "filter_search_result_urls", href |-> a,
                        result |-> filter_search_result_urls(a)]
    /\ UNCHANGED <<main, consent_call, cookie_call>>

FilterNext == call_filter_search_result_urls

FilterSpec == FilterInit /\ [][FilterNext]_vars

(***************************************************************************)
(* check_cookie_banner(response), lines 309-323.  A response body is the   *)
(* sequence of its forms; a form is its action, the values of its submit   *)
(* children in document order, and its hidden inputs.                      *)
(***************************************************************************)
Tlds == {"de", "com"}
\* f"https://consent.google.{tld}/save"
consent_save(tld) ==
    IF tld = "de" THEN "https://consent.google.de/save"
    ELSE "https://consent.google.com/save"
AcceptLabels == {"Accept all", "Alle akzeptieren"}
Form(action, submits, hidden) == [action |-> action, submits |-> submits, hidden |-> hidden]
Forms ==
    { Form(act, sub, hid) :
        act \in {consent_save("de"), consent_save("com"), "https://other.example/save"},
        sub \in {<<>>, <<"Accept all">>, <<"Alle akzeptieren">>, <<"Reject all">>,
                 <<"Reject all", "Accept all">>},
        hid \in {{"bl"}, {"bl", "continue"}} }
Bodies == SeqsUpTo(Forms, MaxForms)

\* line 317: i and i[0] in ["Accept all", "Alle akzeptieren"]
accept(form) == form.submits # <<>> /\ form.submits[1] \in AcceptLabels

\* The requests check_cookie_banner sends and the response it returns:
\* "input" for its argument, "post" for the response of its POST.
check_cookie_banner(forms, tld) ==
    LET banner == \E i \in 1..Len(forms) : forms[i].action = consent_save("de")
        cookie_forms == SelectSeq(forms, LAMBDA f : f.action = consent_save(tld))
        hits == {i \in 1..Len(cookie_forms) : accept(cookie_forms[i])}
    IN  IF banner /\ hits # {}
        THEN LET accept_form == cookie_forms[CHOOSE i \in hits : \A j \in hits : i <= j]
             IN  [posts |-> << [type |-> "POST", url |-> accept_form.action,
                                data |-> accept_form.hidden] >>,
                  returned |-> "post"]
        ELSE [posts |-> <<>>, returned |-> "input"]

ConsentInit ==
    /\ Standing
    /\ link_call = NoCall
    /\ consent_call \in {[fn |-> "none", tld |-> t] : t \in Tlds}
    /\ cookie_call = NoCall

call_check_cookie_banner ==
    /\ consent_call.fn = "none"
    /\ \E forms \in Bodies :
          consent_call' = [fn |-> "check_cookie_banner", tld |-> consent_call.tld,
                           forms |-> forms,
                           result |-> check_cookie_banner(forms, consent_call.tld)]
    /\ UNCHANGED <<main, link_call, cookie_call>>

ConsentNext == call_check_cookie_banner

ConsentSpec == ConsentInit /\ [][ConsentNext]_vars

(***************************************************************************)
(* request, lines 297-300, and update_cookies, lines 303-307.  A cookie    *)
(* collection gives each cookie name its value, or None when the name is   *)
(* not in it.                                                              *)
(***************************************************************************)
CookieNames == {"NID", "CONSENT"}
CookieValues == {"v1", "v2"}
CookieJars == [CookieNames -> CookieValues \cup {None}]
Histories == SeqsUpTo(CookieJars, MaxHops)

\* "not self.cookies"
empty(cookies) == \A n \in CookieNames : cookies[n] = None

update_cookies(self_cookies, cookies) ==
    IF empty(self_cookies) THEN cookies
    ELSE [n \in CookieNames |-> IF cookies[n] # None THEN cookies[n] ELSE self_cookies[n]]

\* for history_elem in response.history: self.update_cookies(...)
RECURSIVE update_from_history(_, _, _)
update_from_history(self_cookies, response_history, i) ==
    IF i > Len(response_history) THEN self_cookies
    ELSE update_from_history(update_cookies(self_cookies, response_history[i]), response_history, i + 1)

\* self.cookies after request(...) got a response with the cookies
\* response_cookies and the redirect history response_history (oldest first).
request_cookies(self_cookies, response_cookies, response_history, update) ==
    IF update
    THEN update_from_history(update_cookies(self_cookies, response_cookies), response_history, 1)
    ELSE self_cookies

CookieInit ==
    /\ Standing
    /\ link_call = NoCall
    /\ consent_call = NoCall
    /\ cookie_call \in {[fn |-> "none", cookies |-> c] : c \in CookieJars}

call_request ==
    /\ cookie_call.fn = "none"
    /\ \E response_cookies \in CookieJars, response_history \in Histories, update \in BOOLEAN :
          cookie_call' = [fn |-> "request", cookies |-> cookie_call.cookies,
                          response_cookies |-> response_cookies,
                          history |-> response_history, update_cookies |-> update,
                          result |-> request_cookies(cookie_call.cookies,
                                                     response_cookies, response_history, update)]
    /\ UNCHANGED <<main, link_call, consent_call>>

CookieNext == call_request

CookieSpec == CookieInit /\ [][CookieNext]_vars

(***************************************************************************)
(* solve_recaptcha, line 381: the challenge resubmission,                  *)
(*     self.request(captcha_url, data=form_inputs, additional_headers=...) *)
(* It passes neither type nor update_cookies, so request runs with the     *)
(* defaults of line 272, type="GET" and update_cookies=True: "assert not   *)
(* data" (line 285) fails on the form, and with assertions stripped the    *)
(* response's cookies are merged as for any other request.                 *)
(***************************************************************************)
\* request(url, data, type, update_cookies), lines 276-301, on a response
\* with the cookies response_cookies and the history response_history:
\* the exception it raises, and self.cookies when it ends.
request(self_cookies, has_data, type, update, asserts, response_cookies, response_history) ==
    IF type \notin {"GET", "POST"}
    THEN [error |-> "NotImplementedError", cookies |-> self_cookies]
    ELSE IF type = "GET" /\ has_data /\ asserts
    THEN [error |-> "AssertionError", cookies |-> self_cookies]
    ELSE [error |-> "none",
          cookies |-> request_cookies(self_cookies, response_cookies,
                                      response_history, update)]

\* The defaults of request's parameters, line 272.
DefaultType == "GET"
DefaultUpdateCookies == TRUE

ResubmitInit ==
    /\ Constructed
    /\ ~ verbose_output
    /\ manages429
    /\ cooloff0 = 6000
    /\ factor = 110
    /\ link_call = NoCall
    /\ consent_call = NoCall
    /\ cookie_call \in {[fn |-> "none", cookies |-> c] : c \in CookieJars}

call_solve_recaptcha_request ==
    /\ cookie_call.fn = "none"
    /\ \E response_cookies \in CookieJars, response_history \in Histories :
          cookie_call' = [fn |-> "solve_recaptcha", cookies |-> cookie_call.cookies,
                          response_cookies |-> response_cookies,
                          history |-> response_history,
                          result |-> request(cookie_call.cookies, TRUE, DefaultType,
                                             DefaultUpdateCookies, asserts_on,
                                             response_cookies, response_history)]
    /\ UNCHANGED <<main, link_call, consent_call>>

ResubmitNext == call_solve_recaptcha_request

ResubmitSpec == ResubmitInit /\ [][ResubmitNext]_vars

(***************************************************************************)
(* Properties.                                                             *)
(***************************************************************************)
\* The yielded elements that are results, i.e. not the 429 sentinel.
IsResult(e) == e.url # SENTINEL
YieldedResults == SelectSeq(yielded, IsResult)

\* C1: no two elements of the sequence yielded by one search_gen run have
\* the same url, in URL-only mode and in verbose mode.
C1_NoDuplicateUrls ==
    \A i, j \in 1..Len(yielded) : i < j => yielded[i].url # yielded[j].url

\* C2: for max_result_urls = N >= 0 the run yields at most N results, it
\* ends with MAX_RESULTS_REACHED only when exactly N were yielded, and once
\* the N-th was yielded and the generator resumed it has ended that way.
C2_CapRespected ==
    max_result_urls >= 0 =>
        /\ Len(YieldedResults) <= max_result_urls
        /\ signal = "MAX_RESULTS_REACHED" => Len(YieldedResults) = max_result_urls
        /\ (Len(YieldedResults) = max_result_urls /\ max_result_urls >= 1
                /\ ~ Suspended)
              => (pc = "done" /\ signal = "MAX_RESULTS_REACHED")

\* C3, as claimed: in verbose mode the ranks of the yielded results count
\* 0, 1, 2, ... and no rank is assigned twice within the session, also
\* across its searches.
C3_RanksNeverRepeatInSession ==
    verbose_output =>
        /\ \A i \in 1..Len(yielded) : IsResult(yielded[i]) => yielded[i].rank = i - 1
        /\ Ranks(yielded) \cap earlier_ranks = {}

\* C3, amended: in verbose mode the results yielded by one search_gen run
\* are records whose ranks count 0, 1, 2, ... in the order of the yields,
\* so no rank is assigned twice within the run; a sentinel comes last.
C3_RanksCountFromZeroInEachSearch ==
    verbose_output =>
        \A i \in 1..Len(yielded) :
            \/ yielded[i].tag = "dict" /\ yielded[i].rank = i - 1
            \/ ~ IsResult(yielded[i]) /\ i = Len(yielded)

\* C3 witness: a verbose search, not the first of its session to yield,
\* whose second result was the first element of a later page.
C3_Witness ==
    /\ verbose_output
    /\ earlier_ranks # {}
    /\ pc = "yielded"
    /\ Len(yielded) = 2
    /\ frame.idx = 1
    /\ yielded[2].rank = 1

\* C4: when a fetched page holds no new unique url (every anchor filtered
\* out or already known), nothing is yielded for it and the run has ended
\* with SEARCH_EXHAUSTED.
C4_ZeroNewUniqueExhausts ==
    page_zero_new => (pc = "done" /\ signal = "SEARCH_EXHAUSTED")

\* C5: once kill_event was set during a pacing delay, at most one more
\* one-second tick elapses, nothing more is yielded, no request is sent,
\* and the run is still in the delay or has ended with SEARCH_KILLED.
C5_KillDuringPacing ==
    pace_kill.seen =>
        /\ pace_kill.ticks <= 1
        /\ Len(yielded) = pace_kill.yielded
        /\ webcalls = pace_kill.webcalls
        /\ \/ pc \in {"pace", "tick", "after_pace"}
           \/ pc = "done" /\ signal = "SEARCH_KILLED"

\* C5 witness: the event was set during a tick, that tick elapsed, and the
\* run ended with SEARCH_KILLED while ticks of the delay were left.
C5_Witness ==
    /\ pace_kill.seen
    /\ pace_kill.ticks = 1
    /\ pc = "done"
    /\ signal = "SEARCH_KILLED"

\* C6: with yagooglesearch_manages_http_429s = False, from a 429 response
\* to the end of the run no solver is invoked, no request is sent, nothing
\* is slept or escalated, and the run ends by yielding the sentinel.
C6_Unmanaged429StopsAtOnce ==
    (~ manages429 /\ g429.seen) =>
        /\ ~ g429.solver
        /\ g429.requests = 0
        /\ g429.slept = -1
        /\ ~ g429.escalated
        /\ pc \in {"solve", "yielded_429", "done"}
        /\ pc = "done" => signal = SENTINEL

\* C7: with the handling enabled, a 429 whose challenge was solved is
\* followed by the cool-off sleep, the escalation and the retry: the run
\* does not end there, except by a transport failure.
C7_Managed429SleepsEscalatesRetries ==
    (manages429 /\ g429.token) =>
        /\ pc = "raised" => error = "TransportError"
        /\ g429.escalated => g429.slept # -1

\* C8: when the solver returned a token for a 429 challenge, the
\* resubmission is a POST and the handler returns without raising.
C8_ResubmissionIsPost ==
    g429.token => (g429.resubmit = "POST" /\ error # "AssertionError")

\* C9: the cool-off changes only in an escalation, which sets it to a
\* hundredth nearest to cool-off times factor; with a factor above 1 no
\* step lowers it; starting a search leaves it alone.
C9_CoolOffOnlyEscalates ==
    [][ /\ escalations' = escalations => cooloff' = cooloff
        /\ escalations' # escalations =>
              /\ 2 * (Hundred * cooloff' - cooloff * factor) <= Hundred
              /\ 2 * (cooloff * factor - Hundred * cooloff') <= Hundred
        /\ factor > Hundred => cooloff' >= cooloff
        /\ factor > Hundred => cooloff >= cooloff0 ]_vars

\* C9 witness: a search that was started on a session whose cool-off had
\* been escalated before.
C9_Witness ==
    /\ pc = "loop"
    /\ yielded = <<>>
    /\ escalations >= 1
    /\ factor > Hundred
    /\ cooloff > cooloff0

\* C10: from 60 minutes with the factor 1.1 the first escalation gives
\* 66.0 minutes and the second 72.6.
C10_DefaultEscalations ==
    (cooloff0 = 6000 /\ factor = 110) =>
        /\ escalations = 0 => cooloff = 6000
        /\ escalations = 1 => cooloff = 6600
        /\ escalations = 2 => cooloff = 7260

\* C10 witness: the second escalation of the default cool-off happened.
C10_Witness ==
    /\ cooloff0 = 6000
    /\ factor = 110
    /\ escalations = 2
    /\ cooloff = 7260

\* The extra_params of the call hold a built-in parameter name.
Reserved(a) == a.extra_params \cap URL_PARAMETERS # {}

\* C11: a search whose extra_params hold one of the nine built-in names
\* does nothing but fail with ValueError: it sends no request (webcalls is
\* unchanged) and yields nothing.
C11_ReservedParamsRaise ==
    [][ Reserved(frame.args) =>
          /\ pc = "loop"
          /\ yielded = <<>>
          /\ pc' # pc =>
                /\ pc' = "raised"
                /\ error' = "ValueError"
                /\ webcalls' = webcalls
                /\ yielded' = <<>> ]_vars

\* C12: every page url of a search carries num = min(num, 100), and the
\* url of page k asks for the offset start + k * min(num, 100), also when
\* the page is requested again after a 429.
C12_PageSizeAndOffsets ==
    pc \in {"request", "solve", "cooloff", "escalate", "yielded", "yielded_429"} =>
        LET p == IF frame.args.num < NumCap THEN frame.args.num ELSE NumCap
        IN  /\ frame.url.num = p
            /\ offset(frame.url) = frame.args.start + frame.page * p

\* C12 witness: the second page of a search called with num above 100 and
\* start 7 is about to be requested again after a 429.
C12_Witness ==
    /\ pc = "request"
    /\ frame.page = 1
    /\ g429.escalated
    /\ frame.args.num > NumCap
    /\ frame.url.num = NumCap
    /\ offset(frame.url) = 7 + NumCap

OtherStatus(st) == st \notin {0, 200, 429}

\* C15: a page response with a status other than 200 and 429 raises
\* nothing, invokes no solver, causes no cool-off and no escalation, adds
\* nothing to the yielded sequence, and ends the search with
\* SEARCH_EXHAUSTED.
C15_OtherStatusExhausts ==
    [][ (pc = "request" /\ pc' # pc /\ OtherStatus(last_fetch'.status)) =>
            /\ pc' = "done"
            /\ signal' = "SEARCH_EXHAUSTED"
            /\ error' = "none"
            /\ yielded' = yielded
            /\ g429' = g429
            /\ cooloff' = cooloff
            /\ escalations' = escalations ]_vars

\* C15 witness: the second page of a search came with status 503.
C15_Witness ==
    /\ last_fetch.status = 503
    /\ pc = "done"
    /\ signal = "SEARCH_EXHAUSTED"
    /\ Len(yielded) >= 1

\* C16: a run of search_gen that ended without an error ended with one of
\* the four terminal signals, whatever max_result_urls was.
C16_TerminalSignal ==
    pc = "done" =>
        signal \in {"SEARCH_EXHAUSTED", "MAX_RESULTS_REACHED", "SEARCH_KILLED", SENTINEL}

\* C17: a transport failure of an HTTP call ends the search with the error:
\* the failed call is not counted in webcalls, nothing is slept, escalated
\* or yielded, and no step of the run follows it.
C17_TransportFailureIsFatal ==
    [][ /\ (last_fetch'.failed # last_fetch.failed /\ last_fetch'.failed # "none") =>
              /\ pc' = "raised"
              /\ error' = "TransportError"
              /\ webcalls' = webcalls + (IF last_fetch'.failed = "consent" THEN 1 ELSE 0)
              /\ yielded' = yielded
              /\ cooloff' = cooloff
              /\ escalations' = escalations
              /\ g429'.slept = g429.slept
        /\ (pc = "raised" /\ error = "TransportError") =>
              /\ pc' \in {"raised", "idle"}
              /\ webcalls' = webcalls
              /\ yielded' \in {yielded, <<>>} ]_vars

\* C17 witness: the consent POST of the second page failed.
C17_Witness ==
    /\ last_fetch.failed = "consent"
    /\ pc = "raised"
    /\ error = "TransportError"
    /\ Len(yielded) >= 1

\* C18: when the solver fails on a 429 the search ends with the solver's
\* error: no resubmission is sent, nothing is slept, the cool-off is
\* unchanged, the page is not requested again, nothing is yielded.
C18_SolverFailureIsFatal ==
    [][ (g429'.solver /\ ~ g429.solver /\ ~ g429'.token /\ error' # "AttributeError") =>
            /\ pc' = "raised"
            /\ error' = "SolverError"
            /\ g429'.resubmit = "none"
            /\ g429'.requests = 0
            /\ g429'.slept = -1
            /\ ~ g429'.escalated
            /\ webcalls' = webcalls
            /\ cooloff' = cooloff
            /\ escalations' = escalations
            /\ yielded' = yielded ]_vars

\* C18 witness: the solver failed on the 429 that answered the second page
\* of a search with the 429 handling enabled.
C18_Witness ==
    /\ pc = "raised"
    /\ error = "SolverError"
    /\ manages429
    /\ g429.solver
    /\ ~ g429.token
    /\ Len(yielded) >= 1

\* The url an href resolves to: the q parameter of a wrapper, its url
\* parameter when q is absent, the href itself otherwise (None: neither).
resolved(a) ==
    IF a.wrapper
    THEN IF present(a.q) THEN a.q ELSE IF present(a.url) THEN a.url ELSE None
    ELSE a.raw

\* "google" occurs in a lower-cased host.
google_host(host) == host \in {"images.google.com", "www.google.com", "google.de"}

\* C19: filter_search_result_urls accepts an href, returning its resolved
\* url, if and only if that url has a non-empty host which does not
\* contain "google"; a wrapper with neither parameter is discarded.
C19_FilterAcceptsByHost ==
    link_call.fn = "filter_search_result_urls" =>
        LET r == resolved(link_call.href)
            accepted == /\ r # None
                        /\ hostname(r) # ""
                        /\ ~ google_host(hostname(r))
        IN  /\ link_call.result # None <=> accepted
            /\ accepted => link_call.result = r

\* C14: for every configured top-level domain check_cookie_banner sends
\* exactly one POST, to the action of a form of the body whose action is
\* the consent-save endpoint of that domain and whose submit label is an
\* accepted one, with that form's hidden inputs, and returns the POST's
\* response, if the body has such a form; otherwise it sends nothing and
\* returns its argument.
C14_ConsentPostIffAcceptForm ==
    consent_call.fn = "check_cookie_banner" =>
        LET forms == consent_call.forms
            res == consent_call.result
            matching == { i \in 1..Len(forms) :
                            /\ forms[i].action = consent_save(consent_call.tld)
                            /\ accept(forms[i]) }
        IN  IF matching # {}
            THEN /\ Len(res.posts) = 1
                 /\ res.returned = "post"
                 /\ \E i \in matching :
                       res.posts[1] = [type |-> "POST", url |-> forms[i].action,
                                       data |-> forms[i].hidden]
            ELSE /\ res.posts = <<>>
                 /\ res.returned = "input"

\* C20: after a request that updates the cookies, a cookie name set by the
\* final response has the final response's value in the session, also when
\* a response of the redirect history set it too.
C20_FinalResponseCookieWins ==
    (cookie_call.fn = "request" /\ cookie_call.update_cookies) =>
        \A n \in CookieNames :
            cookie_call.response_cookies[n] # None =>
                cookie_call.result[n] = cookie_call.response_cookies[n]

\* C21: the request of the challenge handler leaves the session cookies as
\* they were, whatever cookies the resubmission response and its redirect
\* history carry.
C21_ResubmissionKeepsCookies ==
    cookie_call.fn = "solve_recaptcha" =>
        cookie_call.result.cookies = cookie_call.cookies

\* C24: in a search with max_result_urls = N >= 0 in which no page response
\* was a 429 (a call that fails ends the search), a page is requested only
\* while fewer than max(N, 1) pages were fetched, and every page fetched
\* before added at least one result to the cumulative list: the search ends
\* after at most max(N, 1) page fetches.
C24_AtMostMaxNPageFetches ==
    (pc = "request" /\ max_result_urls >= 0 /\ ~ g429.seen) =>
        /\ frame.page < (IF max_result_urls > 1 THEN max_result_urls ELSE 1)
        /\ frame.page <= Len(frame.search_result_list)

\* The second page of a search with max_result_urls = 2 is about to be
\* requested, after a first page that gave one result.
C24_Witness ==
    /\ pc = "request"
    /\ max_result_urls = 2
    /\ ~ g429.seen
    /\ frame.page = 1
    /\ Len(frame.search_result_list) = 1

C23_AgentChangedOnlyByReset ==
    [][ /\ user_agent' # user_agent =>
              (pc = "idle" /\ pc' = "loop" /\ frame'.random_agent)
        /\ Cardinality(last_fetch'.agents) <= 1 ]_vars

\* A search is about to request its second page, after a page fetch, a
\* pacing delay, a 429 with its cool-off and retry, and with kill_event
\* set: all its requests carried the session's user agent.
C23_Witness ==
    /\ pc = "request"
    /\ frame.page = 1
    /\ g429.escalated
    /\ kill_event = "set"
    /\ default_user_agent = None
    /\ last_fetch.agents = {user_agent}

\* C22: the construction of a session ends only after a request to the home
\* page was sent, and it leaves the request counter and the snapshot equal
\* (both 1); a search requests a page only in a constructed session, and
\* every page request that is counted, the first of the first search
\* included, leaves the counter above the snapshot, so that
\* sleep_against_429 takes it for a fresh request.
C22_ConstructionSeedsCounters ==
    [][ /\ (pc = "home_done" /\ pc' = "idle") =>
              /\ webcalls >= 1
              /\ last_fetch.status # 0
              /\ webcalls' = 1
              /\ last_webcalls' = webcalls'
        /\ (pc' = "request" /\ ~ frame'.home) => last_webcalls' >= 1
        /\ (pc = "request" /\ ~ frame.home /\ webcalls' > webcalls) =>
              last_webcalls' < webcalls' ]_vars

\* The first search after the construction fetched its first page with one
\* request and is in the pacing delay that follows it.
C22_Witness ==
    /\ pc = "pace"
    /\ frame.page = 1
    /\ frame.ticks_left > 0
    /\ earlier_ranks = {}
    /\ escalations = 0
    /\ last_webcalls = 1
    /\ webcalls = 2

====
